---- MODULE Spec2Model ----
(***************************************************************************)
(* ls_oxide: the directory lister (src/dir_utils.rs), the command line     *)
(* dispatch and the recursive walker (src/main.rs).                        *)
(*                                                                         *)
(* A file name is a sequence of one-character strings, compared as Rust    *)
(* compares str: byte by byte, a proper prefix first.  A path is a         *)
(* sequence of file names below the listing root.                          *)
(***************************************************************************)
EXTENDS Integers, Sequences, FiniteSets, TLC

VARIABLES
    fs,          \* path -> [ok, entries]: the directories of the file system
    args,        \* the parsed command line (args.rs)
    pc,          \* "main", "walk", "done", "panicked"; "call" / "fmt" in the library specifications
    stack,       \* list_recursive's activations, innermost last
    out,         \* what has been written to stdout, in order
    exit_code,   \* the process's exit status, -1 while it runs
    err,         \* what has been written to stderr
    probe,       \* list_recursive: the last path tested with is_dir, and the entry it came from
    req,         \* the parameters of a direct call of list_files / list_files_detailed
    ret,         \* what that call returned
    mode,        \* get_file_info: the st_mode of the entry
    is_dir,      \* get_file_info: metadata.is_dir()
    permissions  \* get_file_info: FileInfo.permissions

\* The variables of the direct library calls, which the command line run leaves alone.
lib == <<req, ret, mode, is_dir, permissions>>

vars == <<fs, args, pc, stack, out, exit_code, err, probe, lib>>

----------------------------------------------------------------------------
(* Characters and strings *)

Chars == {"*", "-", ".", "/", "a", "b", "c", "d", "h", "l", "m", "s", "u"}

\* The byte of each character (ASCII), the order str::cmp uses.
CharCode(c) ==
    CASE c = "*" -> 42
      [] c = "-" -> 45
      [] c = "." -> 46
      [] c = "/" -> 47
      [] c = "a" -> 97
      [] c = "b" -> 98
      [] c = "c" -> 99
      [] c = "d" -> 100
      [] c = "h" -> 104
      [] c = "l" -> 108
      [] c = "m" -> 109
      [] c = "s" -> 115
      [] c = "u" -> 117

\* Ordering::Less / Equal / Greater as -1 / 0 / 1.
IntCmp(x, y) == IF x < y THEN -1 ELSE IF x = y THEN 0 ELSE 1

RECURSIVE StrCmp(_, _)
StrCmp(s, t) ==
    IF s = <<>> THEN (IF t = <<>> THEN 0 ELSE -1)
    ELSE IF t = <<>> THEN 1
    ELSE IF Head(s) # Head(t) THEN IntCmp(CharCode(Head(s)), CharCode(Head(t)))
    ELSE StrCmp(Tail(s), Tail(t))

StartsWith(s, c) == Len(s) > 0 /\ s[1] = c
EndsWith(s, c) == Len(s) > 0 /\ s[Len(s)] = c

----------------------------------------------------------------------------
(* get_file_info: the permission string *)

\* The mutant of FormatRwx: the write and execute letters change places.
FormatRwxSwapped(bits) ==
    << IF (bits \div 4) % 2 # 0 THEN "r" ELSE "-",
       IF bits % 2 # 0 THEN "w" ELSE "-",
       IF (bits \div 2) % 2 # 0 THEN "x" ELSE "-" >>

FormatRwx(bits) ==
    << IF (bits \div 4) % 2 # 0 THEN "r" ELSE "-",
       IF (bits \div 2) % 2 # 0 THEN "w" ELSE "-",
       IF bits % 2 # 0 THEN "x" ELSE "-" >>

FormatMode(m) ==
    LET user  == (m \div 64) % 8
        group == (m \div 8) % 8
        other == m % 8
    IN  FormatRwx(user) \o FormatRwx(group) \o FormatRwx(other)

Permissions(dir, m) == <<IF dir THEN "d" ELSE "-">> \o FormatMode(m)

----------------------------------------------------------------------------
(* The file system.                                                        *)
(* An item of a directory's enumeration is what fs::read_dir yields:       *)
(*   entry_ok   the item is Ok(DirEntry), not Err                          *)
(*   file_name  entry.file_name()                                          *)
(*   meta_ok    entry.metadata() succeeds                                  *)
(*   kind       "dir", "file" (regular) or "other" (symbolic link, fifo..) *)
(*   mode       st_mode, the file type bits included                       *)
(*   len, mtime metadata.len(), metadata.modified()                        *)
(* read_dir never yields "." or "..".                                      *)

Item(n, k, m, l, t) ==
    [entry_ok |-> TRUE, file_name |-> n, meta_ok |-> TRUE, kind |-> k,
     mode |-> m, len |-> l, mtime |-> t]

\* fs::read_dir(path) is Ok: the path names a directory that can be opened.
CanReadDir(path) == path \in DOMAIN fs /\ fs[path].ok

\* Path::is_dir(): the path exists and is a directory.
IsDir(path) == path \in DOMAIN fs

\* Path::join: joining the empty string leaves the directory itself ("p/").
Join(path, name) == IF name = <<>> THEN path ELSE Append(path, name)

----------------------------------------------------------------------------
(* list_files and list_files_detailed *)

\* mode & 0o111 != 0
AnyExecBit(m) == m % 2 = 1 \/ (m \div 8) % 2 = 1 \/ (m \div 64) % 2 = 1

AddFileTypeIndicator(name, e) ==
    IF e.kind = "dir" THEN Append(name, "/")
    ELSE IF AnyExecBit(e.mode) THEN Append(name, "*")
    ELSE name

\* The mutant of HiddenDropped: the hidden test is not negated.
HiddenDroppedAlways(file_name, show_hidden) ==
    show_hidden /\ StartsWith(file_name, ".")

\* if !show_hidden && file_name.starts_with('.') { return None; }
HiddenDropped(file_name, show_hidden) ==
    ~show_hidden /\ StartsWith(file_name, ".")

\* if almost_all && (file_name == "." || file_name == "..") { return None; }
DotDropped(file_name, almost_all) ==
    almost_all /\ file_name \in {<<".">>, <<".", ".">>}

\* The mutant of MetadataRead: an entry whose metadata cannot be read is kept.
MetadataReadAlways(e) == TRUE

\* entry.metadata().ok()?
MetadataRead(e) == e.meta_ok

\* The closure of filter_map returns Some for the item.
Kept(e, show_hidden, almost_all) ==
    /\ e.entry_ok
    /\ ~HiddenDropped(e.file_name, show_hidden)
    /\ ~DotDropped(e.file_name, almost_all)
    /\ MetadataRead(e)

\* The tuple list_files collects for a kept entry: (display_name, metadata,
\* modified_time).  src is history, read by no operation: the file name of the
\* entry the tuple was made from.
FileTuple(e, classify) ==
    [name |-> IF classify THEN AddFileTypeIndicator(e.file_name, e) ELSE e.file_name,
     len  |-> e.len,
     time |-> e.mtime,
     src  |-> e.file_name]

\* get_file_info for an entry whose metadata is read.
FileInfo(e) ==
    [permissions   |-> Permissions(e.kind = "dir", e.mode),
     name          |-> e.file_name,
     is_dir        |-> e.kind = "dir",
     file_size     |-> e.len,
     modified_time |-> e.mtime]

\* The mutant of CompareFiles: reverse is ignored for the name key.
CompareFilesNoReverse(a, b, sort_time, sort_size, reverse) ==
    IF sort_time THEN (IF reverse THEN IntCmp(a.time, b.time) ELSE IntCmp(b.time, a.time))
    ELSE IF sort_size THEN (IF reverse THEN IntCmp(a.len, b.len) ELSE IntCmp(b.len, a.len))
    ELSE StrCmp(a.name, b.name)

\* The comparator list_files gives sort_by.
CompareFiles(a, b, sort_time, sort_size, reverse) ==
    IF sort_time THEN (IF reverse THEN IntCmp(a.time, b.time) ELSE IntCmp(b.time, a.time))
    ELSE IF sort_size THEN (IF reverse THEN IntCmp(a.len, b.len) ELSE IntCmp(b.len, a.len))
    ELSE (IF reverse THEN StrCmp(b.name, a.name) ELSE StrCmp(a.name, b.name))

\* The comparator list_files_detailed gives sort_by.
CompareInfos(a, b, sort_time, sort_size, reverse) ==
    IF sort_time
    THEN (IF reverse THEN IntCmp(a.modified_time, b.modified_time)
                     ELSE IntCmp(b.modified_time, a.modified_time))
    ELSE IF sort_size
    THEN (IF reverse THEN IntCmp(a.file_size, b.file_size)
                     ELSE IntCmp(b.file_size, a.file_size))
    ELSE (IF reverse THEN StrCmp(b.name, a.name) ELSE StrCmp(a.name, b.name))

Compare(detailed, a, b, f) ==
    IF detailed THEN CompareInfos(a, b, f.sort_time, f.sort_size, f.reverse)
    ELSE CompareFiles(a, b, f.sort_time, f.sort_size, f.reverse)

\* slice::sort_by is a stable sort: x goes before the first element it is less than.
RECURSIVE Insert(_, _, _, _)
Insert(x, sorted, detailed, f) ==
    IF sorted = <<>> THEN <<x>>
    ELSE IF Compare(detailed, x, Head(sorted), f) < 0 THEN <<x>> \o sorted
    ELSE <<Head(sorted)>> \o Insert(x, Tail(sorted), detailed, f)

RECURSIVE SortFrom(_, _, _, _)
SortFrom(sorted, rest, detailed, f) ==
    IF rest = <<>> THEN sorted
    ELSE SortFrom(Insert(Head(rest), sorted, detailed, f), Tail(rest), detailed, f)

\* if !unsorted { files.sort_by(...) }
SortBy(files, detailed, f) ==
    IF f.unsorted THEN files ELSE SortFrom(<<>>, files, detailed, f)

\* list_files before its last line: the sorted vector of tuples.
ListedTuples(path, f) ==
    LET keep(e) == Kept(e, f.show_hidden, f.almost_all)
        kept    == SelectSeq(fs[path].entries, keep)
    IN  SortBy([i \in 1..Len(kept) |-> FileTuple(kept[i], f.classify)], FALSE, f)

\* list_files, when read_dir succeeds: the names of the tuples.
ListFiles(path, f) ==
    LET files == ListedTuples(path, f) IN [i \in 1..Len(files) |-> files[i].name]

\* The file names of the entries list_files returned, in its order (history).
ListedSources(path, f) ==
    LET files == ListedTuples(path, f) IN [i \in 1..Len(files) |-> files[i].src]

\* list_files_detailed, when read_dir succeeds.
ListFilesDetailed(path, f) ==
    LET keep(e) == Kept(e, f.show_hidden, f.almost_all)
        kept    == SelectSeq(fs[path].entries, keep)
    IN  SortBy([i \in 1..Len(kept) |-> FileInfo(kept[i])], TRUE, f)

----------------------------------------------------------------------------
(* main.rs: list_directory and list_recursive *)

Root == <<>>

\* The parameters list_directory hands to the listers.
\* The mutant of ShowHidden: -A alone does not show hidden entries.
ShowHiddenAllOnly(a) == a.all

\* let show_hidden = args.all || args.almost_all;
ShowHidden(a) == a.all \/ a.almost_all

Flags(a) ==
    [show_hidden |-> ShowHidden(a), almost_all |-> a.almost_all,
     classify |-> a.classify, sort_time |-> a.sort_time, sort_size |-> a.sort_size,
     reverse |-> a.reverse, unsorted |-> a.unsorted]

Header(path) == [kind |-> "header", val |-> path]
NameOut(file) == [kind |-> "name", val |-> file]
RowOut(info) == [kind |-> "row", val |-> info]

\* for file in files { print!(..) } and the rows of the table
NamesOut(files) == [i \in 1..Len(files) |-> NameOut(files[i])]
RowsOut(infos) == [i \in 1..Len(infos) |-> RowOut(infos[i])]

\* .expect("Unable to read directory") on Err: the panic ends the process.
Panic ==
    /\ pc' = "panicked"
    /\ exit_code' = 101
    /\ err' = Append(err, "Unable to read directory")

\* list_directory, args.long: the table of list_files_detailed.  args.recursive is not read.
ListLong ==
    /\ pc = "main"
    /\ args.long
    /\ IF CanReadDir(Root)
       THEN /\ out' = out \o RowsOut(ListFilesDetailed(Root, Flags(args)))
            /\ pc' = "done"
            /\ exit_code' = 0
            /\ UNCHANGED err
       ELSE /\ Panic
            /\ UNCHANGED out
    /\ UNCHANGED <<fs, args, stack, probe, lib>>

\* list_directory, neither long nor recursive: the names of list_files.
ListShort ==
    /\ pc = "main"
    /\ ~args.long
    /\ ~args.recursive
    /\ IF CanReadDir(Root)
       THEN /\ out' = out \o NamesOut(ListFiles(Root, Flags(args)))
            /\ pc' = "done"
            /\ exit_code' = 0
            /\ UNCHANGED err
       ELSE /\ Panic
            /\ UNCHANGED out
    /\ UNCHANGED <<fs, args, stack, probe, lib>>

\* list_recursive(path) up to its loop, called with the activations `frames` below it:
\* the header, then list_files (which panics when the directory cannot be read),
\* then the names.
Enter(path, frames) ==
    IF CanReadDir(path)
    THEN /\ out' = (out \o <<Header(path)>>) \o NamesOut(ListFiles(path, Flags(args)))
         /\ stack' = Append(frames,
                [path |-> path, files |-> ListFiles(path, Flags(args)),
                 srcs |-> ListedSources(path, Flags(args)), i |-> 1])
         /\ pc' = "walk"
         /\ UNCHANGED <<exit_code, err>>
    ELSE /\ out' = out \o <<Header(path)>>
         /\ stack' = frames
         /\ Panic

\* list_directory, recursive and not long.
ListRecursive ==
    /\ pc = "main"
    /\ ~args.long
    /\ args.recursive
    /\ Enter(Root, stack)
    /\ UNCHANGED <<fs, args, probe, lib>>

\* let clean_filename = if classify && (file.ends_with('/') || file.ends_with('*'))
\*     { &file[..file.len() - 1] } else { &file };
CleanFilename(file, classify) ==
    IF classify /\ (EndsWith(file, "/") \/ EndsWith(file, "*"))
    THEN SubSeq(file, 1, Len(file) - 1)
    ELSE file

Top == stack[Len(stack)]
FullPath == Join(Top.path, CleanFilename(Top.files[Top.i], args.classify))
Advanced == [stack EXCEPT ![Len(stack)].i = @ + 1]
Probed == [full_path |-> FullPath, entry |-> Join(Top.path, Top.srcs[Top.i])]

\* One turn of list_recursive's loop whose full_path is a directory: the recursive call.
WalkInto ==
    /\ pc = "walk"
    /\ Top.i <= Len(Top.files)
    /\ IsDir(FullPath)
    /\ probe' = Probed
    /\ Enter(FullPath, Advanced)
    /\ UNCHANGED <<fs, args, lib>>

\* One turn of the loop whose full_path is no directory.
WalkPast ==
    /\ pc = "walk"
    /\ Top.i <= Len(Top.files)
    /\ ~IsDir(FullPath)
    /\ probe' = Probed
    /\ stack' = Advanced
    /\ UNCHANGED <<fs, args, pc, out, exit_code, err, lib>>

\* The loop is over: list_recursive returns; main returns after the outermost one.
WalkReturn ==
    /\ pc = "walk"
    /\ Top.i > Len(Top.files)
    /\ stack' = SubSeq(stack, 1, Len(stack) - 1)
    /\ IF Len(stack) = 1
       THEN pc' = "done" /\ exit_code' = 0
       ELSE UNCHANGED <<pc, exit_code>>
    /\ UNCHANGED <<fs, args, out, err, probe, lib>>

----------------------------------------------------------------------------
(* The command line run: its initial states *)

\* The most entries of the listing root, and of the directory of a direct call.
MaxRootEntries == 3
MaxEntries == 3

\* The sequences of at most n different members of S.
RECURSIVE Arrangements(_, _)
Arrangements(S, n) ==
    IF n = 0 THEN {<<>>}
    ELSE {<<>>} \cup UNION {{<<x>> \o t : t \in Arrangements(S \ {x}, n - 1)} : x \in S}

\* Modes: 33188 = 0o100644, 33261 = 0o100755, 16877 = 0o040755, 16384 = 0o040000,
\* 41471 = 0o120777.
FileA    == Item(<<"a">>, "file", 33188, 3, 1)
ExecB    == Item(<<"b">>, "file", 33261, 4, 6)
HiddenH  == Item(<<".", "h">>, "dir", 16877, 1, 5)
DirD     == Item(<<"d">>, "dir", 16877, 1, 3)
FileDStar == Item(<<"d", "*">>, "file", 33188, 2, 4)
DirU     == Item(<<"u">>, "dir", 16384, 1, 2)
DirS     == Item(<<"s">>, "dir", 16877, 1, 7)

\* What the listing root may hold.  d holds the directory s and a file, s a file,
\* .h an executable file; u is a directory that cannot be opened.
WalkPool == {FileA, ExecB, HiddenH, DirD, FileDStar, DirU}

Dirs(entries) == {entries[i].file_name : i \in {j \in 1..Len(entries) : entries[j].kind = "dir"}}

Tree(entries, ok) ==
    LET top   == {<<n>> : n \in Dirs(entries)}
        paths == {Root} \cup top \cup (IF <<"d">> \in Dirs(entries) THEN {<<<<"d">>, <<"s">>>>} ELSE {})
    IN  [p \in paths |->
            IF p = Root THEN [ok |-> ok, entries |-> entries]
            ELSE IF p = <<<<"d">>>> THEN [ok |-> TRUE, entries |-> <<DirS, FileA>>]
            ELSE IF p = <<<<"d">>, <<"s">>>> THEN [ok |-> TRUE, entries |-> <<FileA>>]
            ELSE IF p = <<<<".", "h">>>> THEN [ok |-> TRUE, entries |-> <<ExecB>>]
            ELSE [ok |-> FALSE, entries |-> <<>>]]

\* The flags of Args that decide what is listed and in which order.  one_per_line
\* and human_readable change only the separators and the text of a size, which
\* out does not record; the run lists one path.
ArgsSet ==
    [all : BOOLEAN, almost_all : BOOLEAN, long : BOOLEAN, recursive : BOOLEAN,
     classify : BOOLEAN, sort_time : BOOLEAN, sort_size : BOOLEAN,
     reverse : BOOLEAN, unsorted : BOOLEAN]

NoArgs ==
    [all |-> FALSE, almost_all |-> FALSE, long |-> FALSE, recursive |-> FALSE,
     classify |-> FALSE, sort_time |-> FALSE, sort_size |-> FALSE,
     reverse |-> FALSE, unsorted |-> FALSE]

NoProbe == [full_path |-> Root, entry |-> Root]
NoRet == [fn |-> "none", files |-> <<>>]

LibIdle ==
    /\ req = Flags(NoArgs)
    /\ ret = NoRet
    /\ mode = 0
    /\ is_dir = FALSE
    /\ permissions = <<>>

ProcessIdle ==
    /\ args = NoArgs
    /\ stack = <<>>
    /\ out = <<>>
    /\ exit_code = -1
    /\ err = <<>>
    /\ probe = NoProbe

Init ==
    /\ fs \in {Tree(es, TRUE) : es \in Arrangements(WalkPool, MaxRootEntries)}
              \cup {Tree(<<>>, FALSE)}
    /\ args \in ArgsSet
    /\ pc = "main"
    /\ stack = <<>>
    /\ out = <<>>
    /\ exit_code = -1
    /\ err = <<>>
    /\ probe = NoProbe
    /\ LibIdle

Next ==
    \/ ListLong
    \/ ListShort
    \/ ListRecursive
    \/ WalkInto
    \/ WalkPast
    \/ WalkReturn

Spec == Init /\ [][Next]_vars

----------------------------------------------------------------------------
(* Direct calls of list_files and list_files_detailed on one directory *)

FileB    == Item(<<"b">>, "file", 33188, 2, 3)
ExecA    == Item(<<"a">>, "file", 33261, 3, 1)
DirC     == Item(<<"c">>, "dir", 16877, 1, 2)
HiddenF  == Item(<<".", "h">>, "file", 33188, 2, 4)
LinkL    == Item(<<"l">>, "other", 41471, 1, 5)
FileCStar == Item(<<"c", "*">>, "file", 33188, 5, 7)
NoMetaM  == [Item(<<"m">>, "file", 33188, 4, 6) EXCEPT !.meta_ok = FALSE]
ErrItem  == [entry_ok |-> FALSE]

ListPool == {FileB, ExecA, DirC, HiddenF, LinkL, FileCStar, NoMetaM, ErrItem}

FlagSet ==
    [show_hidden : BOOLEAN, almost_all : BOOLEAN, classify : BOOLEAN,
     sort_time : BOOLEAN, sort_size : BOOLEAN, reverse : BOOLEAN, unsorted : BOOLEAN]

InitList ==
    /\ fs \in {[p \in {Root} |-> [ok |-> TRUE, entries |-> es]] :
                  es \in Arrangements(ListPool, MaxEntries)}
              \cup {[p \in {Root} |-> [ok |-> FALSE, entries |-> <<>>]]}
    /\ req \in FlagSet
    /\ pc = "call"
    /\ ret = NoRet
    /\ mode = 0
    /\ is_dir = FALSE
    /\ permissions = <<>>
    /\ ProcessIdle

\* list_files(path, ...)
CallListFiles ==
    /\ pc = "call"
    /\ IF CanReadDir(Root)
       THEN /\ ret' = [fn |-> "list_files", files |-> ListFiles(Root, req)]
            /\ pc' = "done"
            /\ UNCHANGED <<exit_code, err>>
       ELSE /\ Panic
            /\ UNCHANGED ret
    /\ UNCHANGED <<fs, args, stack, out, probe, req, mode, is_dir, permissions>>

\* list_files_detailed(path, ...)
CallListFilesDetailed ==
    /\ pc = "call"
    /\ IF CanReadDir(Root)
       THEN /\ ret' = [fn |-> "list_files_detailed", files |-> ListFilesDetailed(Root, req)]
            /\ pc' = "done"
            /\ UNCHANGED <<exit_code, err>>
       ELSE /\ Panic
            /\ UNCHANGED ret
    /\ UNCHANGED <<fs, args, stack, out, probe, req, mode, is_dir, permissions>>

NextList ==
    \/ CallListFiles
    \/ CallListFilesDetailed

SpecList == InitList /\ [][NextList]_vars

----------------------------------------------------------------------------
(* get_file_info's permission string, for every mode *)

\* The bits of st_mode above the low nine, as mode >> 9: none, sticky, setgid,
\* setuid, S_IFDIR, S_IFREG, S_IFLNK.
HighBits == {0, 1, 2, 4, 32, 64, 80}

InitFmt ==
    /\ mode \in {hi * 512 + lo : hi \in HighBits, lo \in 0..511}
    /\ is_dir \in BOOLEAN
    /\ permissions = <<>>
    /\ pc = "fmt"
    /\ req = Flags(NoArgs)
    /\ ret = NoRet
    /\ fs = [p \in {Root} |-> [ok |-> TRUE, entries |-> <<>>]]
    /\ ProcessIdle

\* let permissions = format!("{}{}", if metadata.is_dir() {"d"} else {"-"}, format_mode(mode));
FormatPermissions ==
    /\ pc = "fmt"
    /\ permissions' = Permissions(is_dir, mode)
    /\ pc' = "done"
    /\ UNCHANGED <<fs, args, stack, out, exit_code, err, probe, req, ret, mode, is_dir>>

NextFmt == FormatPermissions

SpecFmt == InitFmt /\ [][NextFmt]_vars

----------------------------------------------------------------------------
(* What the claims speak of, stated apart from the lister's own code *)

\* The entries of a directory: the items of its enumeration that are entries.
EntriesOf(path) ==
    LET ok(e) == e.entry_ok IN SelectSeq(fs[path].entries, ok)

\* The hidden / almost-all filter, as the specification words it.
PassesFilter(e, f) ==
    /\ (StartsWith(e.file_name, ".") => f.show_hidden)
    /\ (f.almost_all => e.file_name # <<".">> /\ e.file_name # <<".", ".">>)

Visible(path, f) ==
    LET pass(e) == PassesFilter(e, f) IN SelectSeq(EntriesOf(path), pass)

VisibleReadable(path, f) ==
    LET pass(e) == PassesFilter(e, f) /\ e.meta_ok IN SelectSeq(EntriesOf(path), pass)

\* s is a display name of the entry e: its file name, or under classify its
\* file name and one indicator.
IsNameOf(s, e, classify) ==
    \/ s = e.file_name
    \/ classify /\ (s = Append(e.file_name, "/") \/ s = Append(e.file_name, "*"))

\* The names `names` are those of the entries `entries`, one name per entry.
OneNamePerEntry(names, entries, classify) ==
    /\ Len(names) = Len(entries)
    /\ \E p \in Permutations(1..Len(names)) :
          \A i \in 1..Len(names) : IsNameOf(names[i], entries[p[i]], classify)

Listed(names, e, classify) == \E i \in 1..Len(names) : IsNameOf(names[i], e, classify)

\* The names a direct call returned.
RetNames ==
    IF ret.fn = "list_files_detailed"
    THEN [i \in 1..Len(ret.files) |-> ret.files[i].name]
    ELSE ret.files

HiddenEntries(path) ==
    {e \in {EntriesOf(path)[i] : i \in 1..Len(EntriesOf(path))} : StartsWith(e.file_name, ".")}

\* C1 as claimed: list_files returns exactly one name per entry that passes the
\* hidden / almost-all filter and no other name, and a dot entry is returned
\* exactly when show_hidden is set.
C1_Original ==
    ret.fn = "list_files" =>
        /\ OneNamePerEntry(ret.files, Visible(Root, req), req.classify)
        /\ \A e \in HiddenEntries(Root) :
              Listed(ret.files, e, req.classify) <=> req.show_hidden

\* C1 as amended: list_files returns exactly one name per entry that passes the
\* filter and whose metadata can be read, and no other name; a dot entry whose
\* metadata can be read is returned exactly when show_hidden is set.
C1_OneNamePerReadableEntry ==
    ret.fn = "list_files" =>
        /\ OneNamePerEntry(ret.files, VisibleReadable(Root, req), req.classify)
        /\ \A e \in HiddenEntries(Root) :
              e.meta_ok => (Listed(ret.files, e, req.classify) <=> req.show_hidden)

C1_Witness ==
    /\ ret.fn = "list_files"
    /\ Len(ret.files) = 2
    /\ req.show_hidden
    /\ req.classify
    /\ \E e \in HiddenEntries(Root) : Listed(ret.files, e, req.classify)
    /\ Len(VisibleReadable(Root, req)) < Len(fs[Root].entries)

\* The keys of consecutive returned entries are in the order of the one active key.
KeysInOrder(names, sizes, times, f) ==
    \A i \in 1..(Len(names) - 1) :
        IF f.sort_time
        THEN (IF f.reverse THEN times[i] <= times[i + 1] ELSE times[i] >= times[i + 1])
        ELSE IF f.sort_size
        THEN (IF f.reverse THEN sizes[i] <= sizes[i + 1] ELSE sizes[i] >= sizes[i + 1])
        ELSE (IF f.reverse THEN StrCmp(names[i], names[i + 1]) >= 0
                           ELSE StrCmp(names[i], names[i + 1]) <= 0)

\* The returned names, matched one to one with the kept entries, follow the raw
\* enumeration order (unsorted) or the order of the active key.
NamesInOrder(names, entries, f) ==
    /\ Len(names) = Len(entries)
    /\ IF f.unsorted
       THEN \A i \in 1..Len(names) : IsNameOf(names[i], entries[i], f.classify)
       ELSE \E p \in Permutations(1..Len(names)) :
               /\ \A i \in 1..Len(names) : IsNameOf(names[i], entries[p[i]], f.classify)
               /\ KeysInOrder(names, [i \in 1..Len(names) |-> entries[p[i]].len],
                              [i \in 1..Len(names) |-> entries[p[i]].mtime], f)

\* C2: the returned entries are in the order of one key: the raw enumeration
\* order if unsorted; else time if sort_time, else size if sort_size, else name;
\* name ascending, time newest first, size largest first, and the opposite with
\* reverse; for list_files and for list_files_detailed.
C2_OrderOfOneKey ==
    /\ ret.fn = "list_files" => NamesInOrder(ret.files, VisibleReadable(Root, req), req)
    /\ ret.fn = "list_files_detailed" =>
          /\ NamesInOrder(RetNames, VisibleReadable(Root, req), [req EXCEPT !.classify = FALSE])
          /\ req.unsorted \/
                KeysInOrder(RetNames, [i \in 1..Len(ret.files) |-> ret.files[i].file_size],
                            [i \in 1..Len(ret.files) |-> ret.files[i].modified_time], req)

C2_Witness ==
    /\ ret.fn = "list_files"
    /\ Len(ret.files) = 3
    /\ ~req.unsorted /\ ~req.sort_time /\ ~req.sort_size /\ req.reverse
    /\ StrCmp(ret.files[1], ret.files[2]) > 0
    /\ StrCmp(ret.files[2], ret.files[3]) > 0
    /\ ~NamesInOrder(ret.files, VisibleReadable(Root, req), [req EXCEPT !.unsorted = TRUE])

\* C4: when the metadata of an entry cannot be read, list_files and
\* list_files_detailed leave out that entry and only that entry: the call
\* returns, every other entry that passes the filter is returned, and nothing
\* stands in for the failed one.
C4_UnreadableEntryOmitted ==
    (pc # "call" /\ CanReadDir(Root)) =>
        /\ pc = "done"
        /\ ret.fn \in {"list_files", "list_files_detailed"}
        /\ Len(RetNames) = Len(VisibleReadable(Root, req))
        /\ \A i \in 1..Len(Visible(Root, req)) :
              LET e == Visible(Root, req)[i]
              IN  Listed(RetNames, e, req.classify /\ ret.fn = "list_files") <=> e.meta_ok

C4_Witness ==
    /\ pc = "done"
    /\ ret.fn = "list_files_detailed"
    /\ Len(ret.files) = 2
    /\ Len(Visible(Root, req)) = 3
    /\ \E i \in 1..3 : ~Visible(Root, req)[i].meta_ok

\* The display name classify asks for: "/" for a directory, "*" for a regular
\* file with an execute bit, nothing for any other entry.
ClassifiedName(e, classify) ==
    IF ~classify THEN e.file_name
    ELSE IF e.kind = "dir" THEN Append(e.file_name, "/")
    ELSE IF e.kind = "file" /\ AnyExecBit(e.mode) THEN Append(e.file_name, "*")
    ELSE e.file_name

\* C7: with classify the short name is the file name and "/" for a directory,
\* "*" for a regular file with an execute bit, nothing for every other entry;
\* without classify, and in the long form always, the bare file name.
C7_ClassifySuffix ==
    /\ ret.fn = "list_files" =>
          /\ Len(ret.files) = Len(VisibleReadable(Root, req))
          /\ \E p \in Permutations(1..Len(ret.files)) :
                \A i \in 1..Len(ret.files) :
                    ret.files[i] = ClassifiedName(VisibleReadable(Root, req)[p[i]], req.classify)
    /\ ret.fn = "list_files_detailed" =>
          /\ Len(ret.files) = Len(VisibleReadable(Root, req))
          /\ \E p \in Permutations(1..Len(ret.files)) :
                \A i \in 1..Len(ret.files) :
                    ret.files[i].name = VisibleReadable(Root, req)[p[i]].file_name

----------------------------------------------------------------------------
(* The command line run *)

\* The paths of the headers written, in order.
Headers ==
    LET isHeader(t) == t.kind = "header"
        hs == SelectSeq(out, isHeader)
    IN  [i \in 1..Len(hs) |-> hs[i].val]

IsPrefix(p, q) == Len(p) <= Len(q) /\ SubSeq(q, 1, Len(p)) = p
ProperPrefix(p, q) == Len(p) < Len(q) /\ IsPrefix(p, q)
Parent(p) == SubSeq(p, 1, Len(p) - 1)

\* path is the directory `name` of one of the listed entries of its parent.
ListedSubdir(path) ==
    \E i \in 1..Len(VisibleReadable(Parent(path), Flags(args))) :
        LET e == VisibleReadable(Parent(path), Flags(args))[i]
        IN  e.file_name = path[Len(path)] /\ e.kind = "dir"

\* The directories reachable from the root through listed entries.
Reachable ==
    {p \in DOMAIN fs : \A k \in 1..Len(p) : ListedSubdir(SubSeq(p, 1, k))}

\* Where the entry `name` stands in the listing of the directory `path`.
ListingIndex(path, name) ==
    CHOOSE i \in 1..Len(ListedSources(path, Flags(args))) :
        ListedSources(path, Flags(args))[i] = name

\* C3: when the target directory, or a subdirectory the walker reaches, cannot
\* be opened, the process ends with a non-zero status and a diagnostic, and no
\* header or entry of the listing target is in the output.
C3_NothingPrintedOnOpenFailure ==
    pc = "panicked" =>
        /\ exit_code # 0
        /\ err # <<>>
        /\ out = <<>>

\* C5: the walker is a depth-first pre-order traversal: one header for the root
\* and for every directory reachable through listed entries, each exactly once,
\* a directory's header before those of its descendants, the descendants of a
\* directory together right after it, the subdirectories in the order of the
\* parent's listing.
C5_DepthFirstPreOrder ==
    (pc = "done" /\ ~args.long /\ args.recursive) =>
        /\ \A i, j \in 1..Len(Headers) : Headers[i] = Headers[j] => i = j
        /\ {Headers[i] : i \in 1..Len(Headers)} = Reachable
        /\ Headers[1] = Root
        /\ \A i, j \in 1..Len(Headers) : ProperPrefix(Headers[i], Headers[j]) => i < j
        /\ \A i, j, k \in 1..Len(Headers) :
              (i < j /\ j < k /\ IsPrefix(Headers[i], Headers[k])) => IsPrefix(Headers[i], Headers[j])
        /\ \A i, j \in 1..Len(Headers) :
              (/\ i < j
               /\ Len(Headers[i]) > 0
               /\ Len(Headers[i]) = Len(Headers[j])
               /\ Parent(Headers[i]) = Parent(Headers[j]))
              => ListingIndex(Parent(Headers[i]), Headers[i][Len(Headers[i])])
                    < ListingIndex(Parent(Headers[j]), Headers[j][Len(Headers[j])])

\* C6: whenever -R is set, every subdirectory of the given path that passes the
\* filter is listed too, whatever the other flags are.
C6_RecursiveAlwaysRecurses ==
    (pc = "done" /\ args.recursive) =>
        \A p \in DOMAIN fs : (Len(p) = 1 /\ ListedSubdir(p)) =>
            \E i \in 1..Len(out) : out[i] = Header(p)

\* An entry is shown: its name is written, as a name or as the name of a row.
Shown(e) ==
    \E i \in 1..Len(out) :
        \/ out[i].kind = "name" /\ IsNameOf(out[i].val, e, args.classify)
        \/ out[i].kind = "row" /\ out[i].val.name = e.file_name

DotNames == {<<".">>, <<".", ".">>, <<".", "/">>, <<".", ".", "/">>}

\* C8: through list_directory, -A without -a shows the hidden entries, in the
\* short, the long and the recursive form, and with -A no entry named "." or
\* ".." is written.
C8_AlmostAllShowsHidden ==
    (pc = "done" /\ args.almost_all) =>
        /\ \A e \in HiddenEntries(Root) : e.meta_ok => Shown(e)
        /\ \A i \in 1..Len(out) :
              /\ out[i].kind = "name" => out[i].val \notin DotNames
              /\ out[i].kind = "row" => out[i].val.name \notin DotNames

C8_Witness ==
    /\ pc = "done"
    /\ args.almost_all /\ ~args.all
    /\ args.recursive /\ ~args.long
    /\ HiddenEntries(Root) # {}
    /\ \E i \in 1..Len(out) : out[i] = Header(<<<<".", "h">>>>)

\* C10: the path the walker tests and recurses into is the parent path joined
\* with the file name of the listed entry, whatever the name, so that with
\* classify it visits the directories it visits without, each once.
C10_RealNameTested ==
    /\ probe.full_path = probe.entry
    /\ pc = "done" => \A i, j \in 1..Len(Headers) : Headers[i] = Headers[j] => i = j

----------------------------------------------------------------------------
(* The permission string *)

Bit(m, b) == (m \div (2 ^ b)) % 2 = 1
Letter(k) == <<"r", "w", "x">>[((k - 1) % 3) + 1]

\* C9: the permission string has 10 characters: "d" for a directory and "-"
\* otherwise, then for each of the low nine bits of the mode, from the highest,
\* its letter of r, w, x when set and "-" when clear; the bits above change
\* nothing; 0o755 gives -rwxr-xr-x and 0o644 gives -rw-r--r-- on a regular file.
C9_PermissionString ==
    pc = "done" =>
        /\ Len(permissions) = 10
        /\ permissions[1] = (IF is_dir THEN "d" ELSE "-")
        /\ \A k \in 1..9 :
              permissions[k + 1] = (IF Bit(mode % 512, 9 - k) THEN Letter(k) ELSE "-")
        /\ (mode % 512 = 493 /\ ~is_dir) =>
              permissions = <<"-", "r", "w", "x", "r", "-", "x", "r", "-", "x">>
        /\ (mode % 512 = 420 /\ ~is_dir) =>
              permissions = <<"-", "r", "w", "-", "r", "-", "-", "r", "-", "-">>

C9_Witness ==
    /\ pc = "done"
    /\ mode = 33261
    /\ ~is_dir
    /\ permissions = <<"-", "r", "w", "x", "r", "-", "x", "r", "-", "x">>

====
